---- MODULE Spec2Model ----
(***************************************************************************)
(* Model of src/generate_company_date_dim.py: the company x date grid      *)
(* generator (generate_company_date_dim) and its driver (main).            *)
(*                                                                         *)
(* Dates are day ordinals (0 is the earliest day an input may hold); a     *)
(* missing value (NaN/NA) is the string NULL.  The seeded generator is a   *)
(* stream fixed by its seed: `stream` memoises, per (seed, position), the  *)
(* value the generator yields there, chosen freely the first time that     *)
(* position of that seed is consumed.                                      *)
(***************************************************************************)
EXTENDS Integers, Sequences, FiniteSets, TLC

VARIABLES
    file,       \* INPUT_FACT_PATH: [exists, headers, rows]
    outfile,    \* OUTPUT_DIM_PATH: [exists, rows]
    cfg,        \* GenerationConfig
    pc,         \* position of main: "start", "returned", "raised", "written"
    run,        \* which execution of the program this is (1 or 2)
    stream,     \* the seeded generator's stream, as far as it has been consumed
    loc,        \* the locals of generate_company_date_dim when it ended
    result,     \* the frame generate_company_date_dim returned
    error,      \* the exception that ended the run, [type, arg]
    first       \* what the first execution ended with: [pc, result, error]

vars == <<file, outfile, cfg, pc, run, stream, loc, result, error, first>>

----------------------------------------------------------------------------
(* Bounds of the model *)

MaxRows == 3          \* fact rows of an input whose rows differ in status
MaxGridRows == 2      \* fact rows of an input whose rows differ in day
MaxDay == 2           \* latest day ordinal of an input
MaxStatusRows == 2    \* fact rows of an input carrying both status columns
MaxCfgOffset == 3     \* largest magnitude of a configured offset

NULL == "<NA>"

Companies == {"a", "b"}
\* groupby sorts its keys: the ids in ascending order
SortedCompanies == <<"a", "b", "c", "d", "e", "f", "g", "h", "i", "j">>
\* Series.mode sorts its result: the status values in ascending order
SortedStatuses == <<"Paying", "Trialing">>
Statuses == {SortedStatuses[i] : i \in 1..Len(SortedStatuses)}

Range(s) == {s[i] : i \in 1..Len(s)}
Min2(x, y) == IF x <= y THEN x ELSE y
Max2(x, y) == IF x >= y THEN x ELSE y
SeqsUpTo(S, n) == UNION {[1..k -> S] : k \in 0..n}

----------------------------------------------------------------------------
(* GenerationConfig *)

DefaultSeed == 42
RatioDen == 10                 \* ratios are tenths: 1 is the default 0.10
DefaultRatio == 1
DefaultMinOffset == 3

DefaultConfig ==
    [random_seed |-> DefaultSeed,
     convert_trialing_ratio |-> DefaultRatio,
     min_conversion_offset_days |-> DefaultMinOffset,
     has_max |-> FALSE,
     max_conversion_offset_days |-> 0]

----------------------------------------------------------------------------
(* Industry assignment *)

INDUSTRIES ==
    <<"Technology", "Healthcare", "Finance", "Retail", "Manufacturing",
      "Education", "Media", "Energy", "Telecommunications", "Government",
      "Transportation", "Hospitality">>

\* int(md5(id).hexdigest(), 16) % 12 for the ids of the model
Md5Mod12(company_id) ==
    CASE company_id = "a" -> 1
      [] company_id = "b" -> 7
      [] company_id = "c" -> 7
      [] company_id = "d" -> 9
      [] company_id = "e" -> 10
      [] company_id = "f" -> 11
      [] company_id = "g" -> 5
      [] company_id = "h" -> 1
      [] company_id = "i" -> 1
      [] company_id = "j" -> 5

assign_industry_deterministically(company_id) ==
    INDUSTRIES[Md5Mod12(company_id) + 1]

----------------------------------------------------------------------------
(* Baseline status *)

Count(s, v) == Cardinality({i \in 1..Len(s) : s[i] = v})

dropna(s) == SelectSeq(s, LAMBDA v : v # NULL)

\* Series.mode(): the most frequent values, sorted ascending
ModeFirstSeen(s) ==
    LET best == {v \in Range(s) : \A w \in Range(s) : Count(s, w) <= Count(s, v)}
    IN  SelectSeq(s, LAMBDA v : v \in best)

mode(s) ==
    LET best == {v \in Range(s) : \A w \in Range(s) : Count(s, w) <= Count(s, v)}
    IN  SelectSeq(SortedStatuses, LAMBDA v : v \in best)

mode_or_trialing(s) ==
    LET s_non_null == dropna(s)
    IN  IF s_non_null = <<>> THEN "Trialing"
        ELSE LET modes == mode(s_non_null)
             IN  IF modes # <<>> THEN modes[1] ELSE "Trialing"

\* groupby("COMPANY_ID")["STATUS"]: the group of one key, in row order
GroupStatus(fact_df, cid) ==
    LET RECURSIVE G(_)
        G(i) == IF i > Len(fact_df) THEN <<>>
                ELSE IF fact_df[i].COMPANY_ID = cid
                     THEN <<fact_df[i].STATUS>> \o G(i + 1)
                     ELSE G(i + 1)
    IN  G(1)

\* the dict's keys are the non-null ids of the frame (groupby drops null keys)
compute_baseline_status_by_company(fact_df) ==
    [cid \in {fact_df[i].COMPANY_ID : i \in 1..Len(fact_df)} \ {NULL} |->
        mode_or_trialing(GroupStatus(fact_df, cid))]

----------------------------------------------------------------------------
(* Reading and normalising the input *)

RawHeaders == {"company_id", "View_Date", "status", "Company_Status"}

Upper(h) ==
    CASE h = "company_id" -> "COMPANY_ID"
      [] h = "View_Date" -> "VIEW_DATE"
      [] h = "status" -> "STATUS"
      [] h = "Company_Status" -> "COMPANY_STATUS"

Columns(f) == {Upper(h) : h \in f.headers}

\* the STATUS column the frame ends up with; NoColumn when it has none
NoColumn == "<no column>"

NormalizeStatus(columns, row) ==
    IF "STATUS" \notin columns /\ "COMPANY_STATUS" \in columns
    THEN row.company_status
    ELSE IF "STATUS" \in columns THEN row.status
    ELSE NoColumn

FactFrame(f) ==
    [i \in 1..Len(f.rows) |->
        [COMPANY_ID |-> f.rows[i].company_id,
         VIEW_DATE |-> f.rows[i].view_date,
         STATUS |-> NormalizeStatus(Columns(f), f.rows[i])]]

HasStatusColumn(f) == "STATUS" \in Columns(f) \/ "COMPANY_STATUS" \in Columns(f)

----------------------------------------------------------------------------
(* The grid *)

\* Series.dropna().unique(): first appearance order
unique_companies(fact_df) ==
    LET RECURSIVE U(_, _)
        U(i, seen) ==
            IF i > Len(fact_df) THEN <<>>
            ELSE LET c == fact_df[i].COMPANY_ID
                 IN  IF c = NULL \/ c \in seen THEN U(i + 1, seen)
                     ELSE <<c>> \o U(i + 1, seen \cup {c})
    IN  U(1, {})

Dates(fact_df) == {fact_df[i].VIEW_DATE : i \in 1..Len(fact_df)}
min_date(fact_df) == CHOOSE d \in Dates(fact_df) : \A e \in Dates(fact_df) : d <= e
max_date(fact_df) == CHOOSE d \in Dates(fact_df) : \A e \in Dates(fact_df) : d >= e

\* min()/max() of an empty column is NaN, and date_range refuses NaT endpoints
DateRangeNeverRaises(fact_df) == FALSE

DateRangeRaises(fact_df) == Len(fact_df) = 0

ObservedDates(fact_df) ==
    LET RECURSIVE S(_)
        S(d) == IF d > max_date(fact_df) THEN <<>>
                ELSE (IF d \in Dates(fact_df) THEN <<d>> ELSE <<>>) \o S(d + 1)
    IN  IF Len(fact_df) = 0 THEN <<>> ELSE S(min_date(fact_df))

date_index(fact_df) ==
    IF Len(fact_df) = 0 THEN <<>>
    ELSE [i \in 1..(max_date(fact_df) - min_date(fact_df) + 1) |->
            min_date(fact_df) + i - 1]

\* MultiIndex.from_product([unique_companies, date_index]).to_frame(), with the
\* STATUS and INDUSTRY columns of lines 98 and 101
dim_baseline(fact_df) ==
    LET ucs == unique_companies(fact_df)
        di == date_index(fact_df)
        n == Len(di)
        base == compute_baseline_status_by_company(fact_df)
    IN  [k \in 1..(Len(ucs) * n) |->
            LET c == ucs[((k - 1) \div n) + 1]
                d == di[((k - 1) % n) + 1]
            IN  [COMPANY_ID |-> c,
                 VIEW_DATE |-> d,
                 STATUS |-> IF c \in DOMAIN base THEN base[c] ELSE "Trialing",
                 INDUSTRY |-> assign_industry_deterministically(c)]]

----------------------------------------------------------------------------
(* The seeded generator *)

\* np.random.default_rng(): without a seed the generator takes fresh entropy
default_rng_unseeded(seed) == 0 - run

\* np.random.default_rng(seed): the generator is identified by its seed
default_rng(seed) == seed

\* what the generator `key` may yield at position `pos`: what it yielded there
\* before, or any of `outcomes` when that position was never consumed
Drawn(strm, key, pos, outcomes) ==
    IF <<key, pos>> \in DOMAIN strm THEN {strm[<<key, pos>>]} ELSE outcomes

Consumed(strm, key, pos, v) ==
    [x \in DOMAIN strm \cup {<<key, pos>>} |->
        IF x = <<key, pos>> THEN v ELSE strm[x]]

\* rng.choice(a, size, replace=False): `size` pairwise distinct elements of a
ChoiceOutcomes(a, size) ==
    {s \in [1..size -> Range(a)] : \A i, j \in 1..size : s[i] = s[j] => i = j}

\* rng.integers(low, high, size): high is exclusive
IntegersOutcomes(low, high, size) == [1..size -> low..(high - 1)]

----------------------------------------------------------------------------
(* Conversion *)

trialing_companies(baseline) ==
    SelectSeq(SortedCompanies,
              LAMBDA cid : cid \in DOMAIN baseline /\ baseline[cid] = "Trialing")

NumToConvertAtLeastOne(trialing, config) ==
    Max2(1, (Len(trialing) * config.convert_trialing_ratio) \div RatioDen)

\* int(len(trialing_companies) * ratio): exact for the tenths of the model
num_to_convert(trialing, config) ==
    (Len(trialing) * config.convert_trialing_ratio) \div RatioDen

min_offset(config, total_days) ==
    Min2(config.min_conversion_offset_days, Max2(total_days - 1, 0))

max_offset(config, total_days) ==
    LET configured == IF config.has_max THEN config.max_conversion_offset_days
                      ELSE total_days - 1
    IN  Max2(min_offset(config, total_days), Min2(configured, total_days - 1))

\* date_index[offset]: a negative offset counts from the end, and an offset
\* outside -len..len-1 raises IndexError
IndexInBounds(di, offset) == 0 - Len(di) <= offset /\ offset <= Len(di) - 1

GetItem(di, offset) ==
    IF offset >= 0 THEN di[offset + 1] ELSE di[Len(di) + offset + 1]

\* dict(zip(companies_to_convert, conversion_offsets)): a later pair of the
\* same key replaces an earlier one
company_to_convdate(di, companies_to_convert, conversion_offsets) ==
    [cid \in Range(companies_to_convert) |->
        LET last == CHOOSE i \in 1..Len(companies_to_convert) :
                        /\ companies_to_convert[i] = cid
                        /\ \A j \in 1..Len(companies_to_convert) :
                               companies_to_convert[j] = cid => j <= i
        IN  GetItem(di, conversion_offsets[last])]

IsAfter(view_date, conv_date) == view_date > conv_date

is_after_or_on(view_date, conv_date) == view_date >= conv_date

ApplyToEveryCompany(dim_df, convdate) ==
    [k \in 1..Len(dim_df) |->
        IF \E cid \in DOMAIN convdate :
               is_after_or_on(dim_df[k].VIEW_DATE, convdate[cid])
        THEN [dim_df[k] EXCEPT !.STATUS = "Paying"]
        ELSE dim_df[k]]

ApplyConversion(dim_df, convdate) ==
    [k \in 1..Len(dim_df) |->
        IF /\ dim_df[k].COMPANY_ID \in DOMAIN convdate
           /\ is_after_or_on(dim_df[k].VIEW_DATE, convdate[dim_df[k].COMPANY_ID])
        THEN [dim_df[k] EXCEPT !.STATUS = "Paying"]
        ELSE dim_df[k]]

\* the column order and the lowercase headers of the returned frame
Finalize(dim_df) ==
    [k \in 1..Len(dim_df) |->
        [view_date |-> dim_df[k].VIEW_DATE,
         company_id |-> dim_df[k].COMPANY_ID,
         status |-> dim_df[k].STATUS,
         industry |-> dim_df[k].INDUSTRY]]

----------------------------------------------------------------------------
(* generate_company_date_dim *)

INPUT_FACT_PATH == "anon_company_day_fact.csv"

NoError == [type |-> "", arg |-> ""]

\* the locals of a call that ended before it computed any
NoLocals ==
    [baseline |-> <<>>, dim_baseline |-> <<>>, total_days |-> 0,
     trialing_companies |-> <<>>, companies_to_convert |-> <<>>,
     min_offset |-> 0, max_offset |-> 0, conversion_offsets |-> <<>>,
     draws |-> <<>>]

Raise(type, arg, locals, strm) ==
    [pc |-> "raised", result |-> <<>>, error |-> [type |-> type, arg |-> arg],
     loc |-> locals, stream |-> strm]

Return(dim_df, locals, strm) ==
    [pc |-> "returned", result |-> Finalize(dim_df), error |-> NoError,
     loc |-> locals, stream |-> strm]

\* lines 96-144: the baseline grid, the two draws and the conversion
ConvertOutcomes(fact_df, config, strm) ==
    LET base == compute_baseline_status_by_company(fact_df)
        dim_df == dim_baseline(fact_df)
        di == date_index(fact_df)
        total_days == Len(di)
        rng == default_rng(config.random_seed)
        trialing == trialing_companies(base)
        n == IF trialing # <<>> THEN num_to_convert(trialing, config) ELSE 0
        locals0 == [NoLocals EXCEPT !.baseline = base, !.dim_baseline = dim_df,
                                    !.total_days = total_days,
                                    !.trialing_companies = trialing]
    IN  IF n <= 0
        THEN {Return(dim_df, locals0, strm)}
        ELSE UNION {
               LET lo == min_offset(config, total_days)
                   hi == max_offset(config, total_days)
                   strm1 == Consumed(strm, rng, 0, sel)
               IN  { LET locals == [locals0 EXCEPT
                                       !.companies_to_convert = sel,
                                       !.min_offset = lo, !.max_offset = hi,
                                       !.conversion_offsets = offs,
                                       !.draws = <<"choice", "integers">>]
                         strm2 == Consumed(strm1, rng, 1, offs)
                     IN  IF \E i \in 1..Len(offs) : ~IndexInBounds(di, offs[i])
                         THEN Raise("IndexError", "date_index", locals, strm2)
                         ELSE Return(ApplyConversion(dim_df,
                                         company_to_convdate(di, sel, offs)),
                                     locals, strm2)
                     : offs \in Drawn(strm1, rng, 1,
                                      IntegersOutcomes(lo, hi + 1, Len(sel))) }
               : sel \in Drawn(strm, rng, 0, ChoiceOutcomes(trialing, n)) }

GenerateOutcomes(f, config, strm) ==
    IF ~f.exists
    THEN {Raise("FileNotFoundError", INPUT_FACT_PATH, NoLocals, strm)}
    ELSE IF "COMPANY_ID" \notin Columns(f)
    THEN {Raise("KeyError", "COMPANY_ID", NoLocals, strm)}
    ELSE IF "VIEW_DATE" \notin Columns(f)
    THEN {Raise("KeyError", "VIEW_DATE", NoLocals, strm)}
    ELSE IF DateRangeRaises(FactFrame(f))
    THEN {Raise("ValueError", "NaT", NoLocals, strm)}
    ELSE IF ~HasStatusColumn(f)
    THEN {Raise("KeyError", "STATUS", NoLocals, strm)}
    ELSE ConvertOutcomes(FactFrame(f), config, strm)

----------------------------------------------------------------------------
(* main *)

\* dim_df = generate_company_date_dim()
Generate ==
    /\ pc = "start"
    /\ \E o \in GenerateOutcomes(file, cfg, stream) :
          /\ pc' = o.pc
          /\ result' = o.result
          /\ error' = o.error
          /\ loc' = o.loc
          /\ stream' = o.stream
    /\ UNCHANGED <<file, outfile, cfg, run, first>>

WriteCsvEarly ==
    /\ pc \in {"returned", "raised"}
    /\ outfile' = [exists |-> TRUE, rows |-> result]
    /\ pc' = IF pc = "returned" THEN "written" ELSE pc
    /\ UNCHANGED <<file, cfg, run, stream, loc, result, error, first>>

\* dim_df.to_csv(OUTPUT_DIM_PATH, index=False)
WriteCsv ==
    /\ pc = "returned"
    /\ outfile' = [exists |-> TRUE, rows |-> result]
    /\ pc' = "written"
    /\ UNCHANGED <<file, cfg, run, stream, loc, result, error, first>>

\* the program is run a second time on the same input and configuration
Rerun ==
    /\ run = 1
    /\ pc \in {"written", "raised"}
    /\ first' = [pc |-> pc, result |-> result, error |-> error]
    /\ run' = 2
    /\ pc' = "start"
    /\ result' = <<>>
    /\ error' = NoError
    /\ loc' = NoLocals
    /\ UNCHANGED <<file, outfile, cfg, stream>>

----------------------------------------------------------------------------
(* The inputs and configurations of the model *)

Absent == [exists |-> FALSE, rows |-> <<>>]

\* an output file left by an earlier run
Stale ==
    [exists |-> TRUE,
     rows |-> <<[view_date |-> 0, company_id |-> "b", status |-> "Paying",
                 industry |-> assign_industry_deterministically("b")]>>]

MissingFile == [exists |-> FALSE, headers |-> {}, rows |-> <<>>]

\* each row on its own day, in day order
OnePerDay(rows) ==
    [i \in 1..Len(rows) |-> [rows[i] EXCEPT !.view_date = Min2(i - 1, MaxDay)]]

\* inputs whose rows differ in company and day (no status recorded)
GridRows ==
    SeqsUpTo([company_id : Companies \cup {NULL}, view_date : 0..MaxDay,
              status : {NULL}, company_status : {NULL}], MaxGridRows)

\* inputs whose rows differ in company and status, one row per day
StatusRows ==
    {OnePerDay(rows) : rows \in
        SeqsUpTo([company_id : Companies, view_date : {0},
                  status : Statuses \cup {NULL}, company_status : {NULL}],
                 MaxRows)}

\* inputs of one company whose two status columns may disagree
BothStatusRows ==
    {OnePerDay(rows) : rows \in
        SeqsUpTo([company_id : {"a"}, view_date : {0},
                  status : Statuses \cup {NULL},
                  company_status : Statuses \cup {NULL}], MaxStatusRows)}

\* inputs spanning 1..MaxDay+1 days with one or two companies, all trialing
SpanRows ==
    {<<[company_id |-> "a", view_date |-> 0, status |-> NULL,
        company_status |-> NULL]>>}
    \cup
    {<<[company_id |-> "a", view_date |-> 0, status |-> NULL,
        company_status |-> NULL],
       [company_id |-> c, view_date |-> d, status |-> NULL,
        company_status |-> NULL]>> : c \in Companies, d \in 0..MaxDay}

StdHeaders == {"company_id", "View_Date", "status"}

Ratios == {0, DefaultRatio, 5, RatioDen}

RatioConfigs == {[DefaultConfig EXCEPT !.convert_trialing_ratio = r] : r \in Ratios}

OffsetConfigs ==
    {[DefaultConfig EXCEPT !.convert_trialing_ratio = RatioDen,
                           !.min_conversion_offset_days = m,
                           !.has_max = FALSE] :
        m \in (0 - MaxCfgOffset)..MaxCfgOffset}
    \cup
    {[DefaultConfig EXCEPT !.convert_trialing_ratio = RatioDen,
                           !.min_conversion_offset_days = m,
                           !.has_max = TRUE,
                           !.max_conversion_offset_days = x] :
        m \in (0 - MaxCfgOffset)..MaxCfgOffset, x \in (0 - 1)..MaxCfgOffset}

Init ==
    /\ \/ /\ file \in [exists : {TRUE}, headers : {StdHeaders},
                       rows : GridRows \cup StatusRows]
          /\ cfg \in RatioConfigs
          /\ outfile = Absent
       \/ /\ file \in [exists : {TRUE}, headers : {StdHeaders}, rows : SpanRows]
          /\ cfg \in OffsetConfigs
          /\ outfile = Absent
       \/ /\ file \in {MissingFile} \cup
                      [exists : {TRUE}, headers : SUBSET RawHeaders,
                       rows : BothStatusRows]
          /\ cfg = [DefaultConfig EXCEPT !.convert_trialing_ratio = RatioDen]
          /\ outfile = Stale
    /\ pc = "start"
    /\ run = 1
    /\ stream = <<>>
    /\ loc = NoLocals
    /\ result = <<>>
    /\ error = NoError
    /\ first = [pc |-> "", result |-> <<>>, error |-> NoError]

\* inputs of ten companies, none with a status, all seen on day 0 and the
\* last of them seen again on a day of 0..MaxDay: with the default ratio one
\* of them is converted
PopulationRows ==
    {[i \in 1..(Len(SortedCompanies) + 1) |->
        [company_id |-> SortedCompanies[Min2(i, Len(SortedCompanies))],
         view_date |-> IF i <= Len(SortedCompanies) THEN 0 ELSE d,
         status |-> NULL, company_status |-> NULL]] : d \in 0..MaxDay}

InitDefault ==
    /\ file \in [exists : {TRUE}, headers : {StdHeaders}, rows : PopulationRows]
    /\ cfg = DefaultConfig
    /\ outfile = Absent
    /\ pc = "start"
    /\ run = 1
    /\ stream = <<>>
    /\ loc = NoLocals
    /\ result = <<>>
    /\ error = NoError
    /\ first = [pc |-> "", result |-> <<>>, error |-> NoError]

Next == Generate \/ WriteCsv \/ Rerun

\* the program under GenerationConfig() on the inputs of ten companies
SpecDefault == InitDefault /\ [][Next]_vars

Spec == Init /\ [][Next]_vars

----------------------------------------------------------------------------
(* What the claims speak of, read off the input file and the output *)

Ended == pc \in {"returned", "written"}

InputCompanies == {file.rows[i].company_id : i \in 1..Len(file.rows)} \ {NULL}
InputDays == {file.rows[i].view_date : i \in 1..Len(file.rows)}
FirstDay == CHOOSE d \in InputDays : \A e \in InputDays : d <= e
LastDay == CHOOSE d \in InputDays : \A e \in InputDays : d >= e

RowsOf(c) == {k \in 1..Len(result) : result[k].company_id = c}

Selected == Range(loc.companies_to_convert)
Eligible == {c \in DOMAIN loc.baseline : loc.baseline[c] = "Trialing"}

\* d is a date at which company c switches from Trialing to Paying
SwitchesAt(c, d) ==
    \A k \in RowsOf(c) :
        result[k].status = IF result[k].view_date < d THEN "Trialing" ELSE "Paying"

----------------------------------------------------------------------------
\* C1: when generation returns, the output holds exactly one row for each
\* pair of a distinct non-null company of the input and a day between the
\* input's earliest and latest day inclusive, and no other row, so its length
\* is (number of companies) x (number of days).
C1_FullGrid ==
    Ended =>
        /\ Len(result) = Cardinality(InputCompanies) * (LastDay - FirstDay + 1)
        /\ \A c \in InputCompanies, d \in FirstDay..LastDay :
              Cardinality({k \in RowsOf(c) : result[k].view_date = d}) = 1
        /\ \A k \in 1..Len(result) :
              /\ result[k].company_id \in InputCompanies
              /\ result[k].view_date \in FirstDay..LastDay

\* a returned grid holding a day no input row has, and a (company, day) pair
\* of two observed values that no input row pairs
C1_Witness ==
    /\ Ended
    /\ Cardinality(InputCompanies) = 2
    /\ \E k \in 1..Len(result) : result[k].view_date \notin InputDays
    /\ \E k \in 1..Len(result) :
          /\ result[k].view_date \in InputDays
          /\ \A i \in 1..Len(file.rows) :
                ~(/\ file.rows[i].company_id = result[k].company_id
                  /\ file.rows[i].view_date = result[k].view_date)

\* C2: every company selected for conversion has exactly one grid date d with
\* all its rows before d Trialing and all its rows on or after d Paying, and
\* that date is its conversion date date_index[offset].
C2_SingleTransition ==
    Ended =>
        \A i \in 1..Len(loc.companies_to_convert) :
            LET c == loc.companies_to_convert[i]
                grid == {result[k].view_date : k \in RowsOf(c)}
            IN  /\ Cardinality({d \in grid : SwitchesAt(c, d)}) = 1
                /\ loc.conversion_offsets[i] >= 0 =>
                       SwitchesAt(c, FirstDay + loc.conversion_offsets[i])

\* a converted company with rows of both statuses
C2_Witness ==
    /\ Ended
    /\ \E c \in Selected :
          /\ \E k \in RowsOf(c) : result[k].status = "Trialing"
          /\ \E k \in RowsOf(c) : result[k].status = "Paying"

\* C3: every output row of a company that was not selected carries that
\* company's baseline status, and only companies of baseline Trialing are
\* ever selected.
C3_NonSelectedUntouched ==
    Ended =>
        /\ \A k \in 1..Len(result) :
              result[k].company_id \notin Selected =>
                  result[k].status = loc.baseline[result[k].company_id]
        /\ \A c \in Selected : loc.baseline[c] = "Trialing"

\* a company is converted while another, not selected, has a row on or after
\* the conversion date
C3_Witness ==
    /\ Ended
    /\ \E c \in Selected, k \in 1..Len(result) :
          /\ result[k].company_id \notin Selected
          /\ \E j \in RowsOf(c) :
                /\ result[j].status = "Paying"
                /\ result[j].view_date <= result[k].view_date

\* C4: the converted companies are exactly floor(|eligible| * ratio) pairwise
\* distinct eligible companies, and they are the companies whose output
\* differs from the baseline; when ratio * |eligible| < 1 none is converted
\* and the output is the baseline grid.
C4_FloorOfEligible ==
    Ended =>
        LET n == Cardinality(Eligible)
            r == cfg.convert_trialing_ratio
            changed == {result[k].company_id : k \in
                           {j \in 1..Len(result) :
                               result[j].status # loc.baseline[result[j].company_id]}}
        IN  /\ Cardinality(Selected) * RatioDen <= n * r
            /\ n * r < (Cardinality(Selected) + 1) * RatioDen
            /\ Len(loc.companies_to_convert) = Cardinality(Selected)
            /\ Selected \subseteq Eligible
            /\ changed = Selected
            /\ n * r < RatioDen =>
                  /\ Selected = {}
                  /\ result = Finalize(loc.dim_baseline)

\* one of two eligible companies is converted
C4_Witness ==
    /\ Ended
    /\ Cardinality(Eligible) = 2
    /\ Cardinality(Selected) = 1

\* C5: a second run on the same input with the same seed ends as the first
\* did, with the same rows in the same order; industry depends on the company
\* alone; the generator is consumed by the selection first and the offsets
\* second, or not at all.
C5_Deterministic ==
    /\ (run = 2 /\ pc # "start") =>
          /\ (pc = "raised") = (first.pc = "raised")
          /\ result = first.result
          /\ error = first.error
    /\ \A k, j \in 1..Len(result) :
          result[k].company_id = result[j].company_id =>
              result[k].industry = result[j].industry
    /\ loc.draws \in {<<>>, <<"choice", "integers">>}
    /\ (loc.draws # <<>>) = (loc.companies_to_convert # <<>>)

\* the second run has written an output whose conversion had several outcomes
C5_Witness ==
    /\ run = 2
    /\ pc = "written"
    /\ Len(loc.companies_to_convert) = 2
    /\ loc.min_offset < loc.max_offset
    /\ loc.conversion_offsets[1] # loc.conversion_offsets[2]


\* C6: the output file changes only by main's write after generation has
\* returned, and then holds the complete returned grid; a run on an absent
\* input fails naming the path, a run without COMPANY_ID or VIEW_DATE fails
\* naming that column (COMPANY_ID first), and a failed run leaves the output
\* file as it was.
C6_AllOrNothing ==
    /\ [](pc # "start" =>
            /\ ~file.exists =>
                  /\ pc = "raised"
                  /\ error = [type |-> "FileNotFoundError", arg |-> INPUT_FACT_PATH]
            /\ (file.exists /\ "company_id" \notin file.headers) =>
                  /\ pc = "raised"
                  /\ error = [type |-> "KeyError", arg |-> "COMPANY_ID"]
            /\ (file.exists /\ "company_id" \in file.headers
                            /\ "View_Date" \notin file.headers) =>
                  /\ pc = "raised"
                  /\ error = [type |-> "KeyError", arg |-> "VIEW_DATE"])
    /\ [][/\ outfile' # outfile =>
                /\ pc = "returned"
                /\ pc' = "written"
                /\ outfile' = [exists |-> TRUE, rows |-> result]
                /\ Len(result) =
                      Cardinality(InputCompanies) * (LastDay - FirstDay + 1)
          /\ pc' = "raised" => outfile' = outfile
          /\ pc = "raised" => outfile' = outfile]_vars

\* a run missing both required columns has failed beside an earlier output
C6_Witness ==
    /\ pc = "raised"
    /\ file.exists
    /\ "company_id" \notin file.headers
    /\ "View_Date" \notin file.headers
    /\ outfile = Stale

StatusesOf(rows, c) ==
    dropna(GroupStatus(FactFrame([file EXCEPT !.rows = rows]), c))

Permuted(rows, p) == [i \in 1..Len(rows) |-> rows[p[i]]]

\* C8: the baseline maps each company of the input to one status: Trialing
\* when it has no non-null status, else a non-null status of its rows that no
\* other occurs more often than; it is the same for every order of the input
\* rows; every row of the grid before conversion carries its company's
\* baseline.
C8_BaselineIsMode ==
    loc.dim_baseline # <<>> =>
        /\ DOMAIN loc.baseline = InputCompanies
        /\ \A c \in InputCompanies :
              LET vals == StatusesOf(file.rows, c)
              IN  /\ vals = <<>> => loc.baseline[c] = "Trialing"
                  /\ vals # <<>> =>
                        /\ loc.baseline[c] \in Range(vals)
                        /\ \A v \in Range(vals) :
                              Count(vals, v) <= Count(vals, loc.baseline[c])
        /\ \A p \in Permutations(1..Len(file.rows)) :
              compute_baseline_status_by_company(
                  FactFrame([file EXCEPT !.rows = Permuted(file.rows, p)]))
              = loc.baseline
        /\ \A k \in 1..Len(loc.dim_baseline) :
              loc.dim_baseline[k].STATUS =
                  loc.baseline[loc.dim_baseline[k].COMPANY_ID]

\* a company whose statuses tie, Trialing seen first, and one with a majority
C8_Witness ==
    /\ Ended
    /\ \E c \in InputCompanies :
          LET vals == StatusesOf(file.rows, c)
          IN  /\ Len(vals) = 2
              /\ vals[1] = "Trialing"
              /\ vals[2] = "Paying"
              /\ loc.baseline[c] = "Paying"

\* the baseline computed from one raw column of the file
BaselineFrom(column) ==
    [c \in InputCompanies |->
        mode_or_trialing(
            LET RECURSIVE G(_)
                G(i) == IF i > Len(file.rows) THEN <<>>
                        ELSE IF file.rows[i].company_id = c
                             THEN <<IF column = "status"
                                    THEN file.rows[i].status
                                    ELSE file.rows[i].company_status>> \o G(i + 1)
                             ELSE G(i + 1)
            IN  G(1))]

\* C9: with the required columns and at least one row, STATUS is used when
\* present, else COMPANY_STATUS when present, and with neither column the
\* generation still succeeds with every baseline Trialing.
C9_StatusOptional ==
    (/\ pc # "start"
     /\ file.exists
     /\ {"COMPANY_ID", "VIEW_DATE"} \subseteq Columns(file)
     /\ file.rows # <<>>) =>
        /\ "STATUS" \in Columns(file) => loc.baseline = BaselineFrom("status")
        /\ ("STATUS" \notin Columns(file) /\ "COMPANY_STATUS" \in Columns(file)) =>
              loc.baseline = BaselineFrom("company_status")
        /\ ~HasStatusColumn(file) =>
              /\ Ended
              /\ \A c \in InputCompanies :
                    /\ c \in DOMAIN loc.baseline
                    /\ loc.baseline[c] = "Trialing"

\* C10: whenever offsets are drawn, min_offset = min(configured_min,
\* total_days - 1), min_offset <= max_offset <= total_days - 1, and every
\* drawn offset lies in [min_offset, max_offset] and in 0..total_days - 1.
C10_OffsetBounds ==
    loc.draws # <<>> =>
        /\ loc.total_days >= 1
        /\ loc.min_offset = Min2(cfg.min_conversion_offset_days, loc.total_days - 1)
        /\ loc.min_offset <= loc.max_offset
        /\ loc.max_offset <= loc.total_days - 1
        /\ \A i \in 1..Len(loc.conversion_offsets) :
              /\ loc.min_offset <= loc.conversion_offsets[i]
              /\ loc.conversion_offsets[i] <= loc.max_offset
              /\ 0 <= loc.conversion_offsets[i]
              /\ loc.conversion_offsets[i] <= loc.total_days - 1

\* C11: under the default configuration every converted company has at
\* least one output row of status Trialing and at least one of status Paying.
C11_BeforeAndAfter ==
    (Ended /\ cfg = DefaultConfig) =>
        \A c \in Selected :
            /\ \E k \in RowsOf(c) : result[k].status = "Trialing"
            /\ \E k \in RowsOf(c) : result[k].status = "Paying"

====
